---- MODULE Spec2Model ----
(***************************************************************************)
(* The mail pipeline of gianglt1991/SMTP: gateway-api (Admission Control), *)
(* unsubscribe-processor (Unsubscribe Filter), worker (Delivery Engine),   *)
(* retry-handler (Retry Engine), all talking to one Redis store.           *)
(* Redis lists, sets and counters are modelled by key, with the key names  *)
(* each process reads from its environment defaults.                       *)
(***************************************************************************)
EXTENDS Integers, Sequences, FiniteSets, TLC

VARIABLES
    lists,      \* Redis lists, by key: a sequence of payloads (head = left end)
    unsub,      \* Redis set "unsubscribed_emails"
    blacklist,  \* Redis set "blacklisted_ips"
    rate,       \* Redis counters "rate_limit:<x>", by <x>; 0 = key absent
    ttl,        \* whether "rate_limit:<x>" carries an expiry
    metrics,    \* Redis counters "<stage>_metrics:<name>"
    nextId,     \* number of job ids generated so far (uuid4 never repeats)
    foreign,    \* number of payloads another producer has pushed so far
    fpc, fjob,  \* unsubscribe.py main: position, payload popped
    wpc, wjob,  \* worker.py main: position, payload popped
    wdata,      \* worker.py main: the local variable `data` (kept across iterations)
    rpc, rjob,  \* retry.py main: position, payload popped / job being re-queued
    rdelay,     \* retry.py main: delay of the sleep in progress
    dropped,    \* job ids the Unsubscribe Filter has terminally dropped
    reqs,       \* gateway.py send: the requests in progress, by slot
    faults,     \* number of store operations that have raised RedisError
    bk,         \* retry.py calculate_backoff: arguments and result
    sel,        \* worker.py select_smtp_config: one call in progress
    win,        \* by <x>: requests let through since "rate_limit:<x>" was created
    attempts,   \* by job id: times the worker has handed the job to smtplib
    mon         \* check_spamhaus_notify.py: the cache keys and one check in progress

vars == <<lists, unsub, blacklist, rate, ttl, metrics, nextId, foreign,
          fpc, fjob, wpc, wjob, wdata, rpc, rjob, rdelay, dropped,
          reqs, faults, bk, sel, win, attempts, mon>>

-----------------------------------------------------------------------------
(* Bounds of the model *)

MaxJobs == 1
MaxForeign == 1
MaxTo == 2
MaxReqs == 2
MaxFaults == 1
MaxN == 12
MaxChecks == 3

-----------------------------------------------------------------------------
(* Environment defaults read with getenv *)

JOB_QUEUE_gateway == "email_jobs"
JOB_QUEUE_filter == "email_jobs"
FILTERED_QUEUE == "filtered_jobs"
JOB_QUEUE_worker == "email_jobs"
DELIVERED_QUEUE == "delivered"
FAILED_QUEUE == "failed_jobs"
BOUNCED_QUEUE == "bounced"
RETRY_QUEUE == "email_jobs"
DEAD_LETTER_QUEUE == "permanent_failed"

max_retries == 3
base_delay == 2
max_delay == 60
RateLimit == 100
RateWindow == 3600

QueueKeys == {"email_jobs", "filtered_jobs", "delivered", "failed_jobs",
              "bounced", "permanent_failed"}


-----------------------------------------------------------------------------
(* Payloads.  A payload is the text held in a Redis list.  json = FALSE is  *)
(* a text json.loads rejects; otherwise the fields are the keys of the      *)
(* decoded mapping, with "", 0, -1, FALSE or toKind = "absent" for a key    *)
(* that is not there.                                                       *)

ValidAddrs == {"a@y.com", "b@y.com"}
Addrs == ValidAddrs \cup {"bad"}
Senders == {"a@x.com", "10.0.0.1"}   \* `from` is whatever text the client sent
ClientIPs == {"10.0.0.1"}
RateIds == Senders \cup ClientIPs

Garbage ==
    [json |-> FALSE, job_id |-> 0, from |-> "", toKind |-> "absent", to |-> <<>>,
     subject |-> FALSE, body |-> FALSE, retries |-> -1, recipient |-> FALSE,
     sender |-> FALSE, error |-> "", smtp_code |-> 0, client_ip |-> "",
     submitted_at |-> FALSE, template_id |-> ""]

NoJob == [Garbage EXCEPT !.toKind = "none"]

\* the `to` values a client can send: one address, or a list of addresses
ToSeqs == UNION {[1..n -> Addrs] : n \in 1..MaxTo}
ToValues == {[kind |-> "single", addrs |-> <<a>>] : a \in Addrs}
            \cup {[kind |-> "list", addrs |-> s] : s \in ToSeqs}

\* json.loads / json.dumps of a flat mapping
CanLoad(p) == p.json
Dumps(d) == [d EXCEPT !.json = TRUE]

\* validate_email(email, check_deliverability=False)
ValidEmail(e) == e \in ValidAddrs

\* data.get("retries", 0)
GetRetries(d) == IF d.retries = -1 THEN 0 ELSE d.retries

\* the keys from, to, subject, body
HasRequired(d) ==
    /\ d.from # ""
    /\ d.toKind \in {"single", "list"}
    /\ d.subject
    /\ d.body

\* store primitives
RPush(q, key, p) == [q EXCEPT ![key] = Append(@, p)]
Incr(m, key) == [m EXCEPT ![key] = @ + 1]

MetricKeys ==
    {"gateway:jobs_queued", "gateway:redis_errors", "gateway:unexpected_errors",
     "unsub:json_errors", "unsub:invalid_jobs", "unsub:skipped",
     "unsub:invalid_emails", "unsub:processed", "unsub:skipped_jobs",
     "unsub:auto_unsubscribed", "unsub:unexpected_errors",
     "worker:deliveries", "worker:smtp_errors", "worker:permanent_failures",
     "worker:unexpected_errors",
     "retry:json_errors", "retry:invalid_jobs", "retry:retries",
     "retry:permanent_failures",
     "ip_reputation:dns_errors", "ip_reputation:unexpected_errors",
     "ip_reputation:blacklisted", "ip_reputation:alerts_sent",
     "ip_reputation:alerts_failed"}

\* worker.py line 55 with the membership test dropped
is_valid_always(c, bl) == TRUE

\* worker.py line 55: not r.sismember("blacklisted_ips", config["host"])
is_valid(c, bl) == c.host \notin bl

\* check_spamhaus_notify.py: the IPs of blacklist.txt and the BLACKLISTS default
MonIPs == {"192.0.2.1", "192.0.2.2"}
Blacklists == <<"zen.spamhaus.org", "dnsbl.sorbs.net">>

\* check_spamhaus_notify.py between checks: no key "blacklist_cache:<ip>",
\* nothing in progress.  `fresh` remembers, by IP, that a check has run its
\* DNS queries and less than cache_ttl has passed since
MonIdle ==
    [pc |-> "idle", ip |-> "", cache |-> [x \in MonIPs |-> "none"],
     results |-> <<>>, queries |-> 0, checks |-> 0,
     fresh |-> [x \in MonIPs |-> FALSE],
     last_alert |-> [x \in MonIPs |-> "never"]]

\* select_smtp_config between calls
SelIdle == [pc |-> "idle", configs |-> <<>>, i |-> 0, valid |-> <<>>,
            checked |-> <<>>, changed |-> FALSE, result |-> ""]

-----------------------------------------------------------------------------
(* Admission Control (gateway.py) *)

PipeVars == <<fpc, fjob, wpc, wjob, wdata, rpc, rjob, rdelay, dropped, foreign,
              attempts>>
FnVars == <<bk, sel, mon>>

\* what a client can put in the body of POST /send
TemplateIds == {"t1", "t2", "t3"}
Templates == {"t1", "t3"}        \* the keys "template:<id>" that exist
BadTemplates == {"t3"}           \* templates naming a placeholder template_data lacks
ClientRetries == {-1, max_retries}
ClientCodes == {0, 250}          \* a key "smtp_code" of the client's own, 0 = none

ClientPayload(tv, ident, r, tpl) ==
    [Garbage EXCEPT !.json = TRUE, !.from = "a@x.com", !.toKind = tv.kind,
                    !.to = tv.addrs, !.subject = TRUE, !.body = TRUE,
                    !.recipient = ident, !.sender = ident, !.retries = r,
                    !.template_id = tpl]

\* lines 52-55 with subject and body left out of required_fields
gateway_validate_job_weak(d) == d.from # "" /\ d.toKind \in {"single", "list"}

\* lines 52-55
gateway_validate_job(d) == HasRequired(d)

\* lines 86-88: any(email in unsub_list for email in to_addresses)
AnyUnsubscribed(addrs, us) == \E i \in 1..Len(addrs) : addrs[i] \in us

\* lines 118-121
NewJob(d, id, ip) ==
    [d EXCEPT !.job_id = id, !.submitted_at = TRUE, !.client_ip = ip]

Idle ==
    [pc |-> "idle", auth |-> "", data |-> Garbage, ip |-> "", count |-> 0,
     resp |-> "", job_id |-> 0, pushed |-> 0, counted |-> 0, raised |-> FALSE]

GwTo == {[kind |-> "single", addrs |-> <<"a@y.com">>],
         [kind |-> "list", addrs |-> <<"a@y.com", "b@y.com">>]}

GwPayloads ==
    {ClientPayload(tv, FALSE, -1, tpl) : tv \in GwTo, tpl \in TemplateIds \cup {""}}
    \cup {[ClientPayload(tv, FALSE, -1, "t2") EXCEPT !.subject = FALSE] : tv \in GwTo}
    \cup {[Garbage EXCEPT !.json = TRUE]}

Done(r, resp) == [r EXCEPT !.pc = "done", !.resp = resp]

GwFrame == UNCHANGED <<PipeVars, FnVars>>

\* the step after the rate limit has let the request through: lines 108-109
AfterRate(r) ==
    IF r.data.template_id # "" THEN [r EXCEPT !.pc = "template"]
    ELSE [r EXCEPT !.pc = "rpush"]

\* lines 32-50 and 76-83: the decorator, then the checks that need no store
GwStart(i) ==
    /\ reqs[i].pc = "idle"
    /\ \E a \in {"ok", "missing", "invalid"}, d \in GwPayloads, ip \in ClientIPs :
         LET r == [Idle EXCEPT !.auth = a, !.data = d, !.ip = ip] IN
         reqs' = [reqs EXCEPT ![i] =
                    IF a # "ok" THEN Done(r, "unauthorized")
                    ELSE IF d = [Garbage EXCEPT !.json = TRUE]
                         THEN Done(r, "malformed")
                    ELSE IF ~gateway_validate_job(d) THEN Done(r, "malformed")
                    ELSE [r EXCEPT !.pc = "smembers"]]
    /\ UNCHANGED <<lists, unsub, blacklist, rate, ttl, metrics, nextId, faults>>
    /\ UNCHANGED win
    /\ GwFrame

\* lines 86-90
GwSmembers(i) ==
    /\ reqs[i].pc = "smembers"
    /\ reqs' = [reqs EXCEPT ![i] =
                  IF AnyUnsubscribed(@.data.to, unsub)
                  THEN Done(@, "recipient-unsubscribed")
                  ELSE [@ EXCEPT !.pc = "sismember"]]
    /\ UNCHANGED <<lists, unsub, blacklist, rate, ttl, metrics, nextId, faults>>
    /\ UNCHANGED win
    /\ GwFrame

\* lines 93-96
GwSismember(i) ==
    /\ reqs[i].pc = "sismember"
    /\ reqs' = [reqs EXCEPT ![i] =
                  IF @.ip \in blacklist THEN Done(@, "forbidden")
                  ELSE [@ EXCEPT !.pc = "incr"]]
    /\ UNCHANGED <<lists, unsub, blacklist, rate, ttl, metrics, nextId, faults>>
    /\ UNCHANGED win
    /\ GwFrame

\* lines 103-105 with the comparison off by one
RateCheck_loose(r) ==
    IF r.count > RateLimit + 1 THEN Done(r, "rate-limited") ELSE AfterRate(r)

\* lines 103-105, once count is known and the expiry is dealt with
RateCheck(r) ==
    IF r.count > RateLimit THEN Done(r, "rate-limited") ELSE AfterRate(r)

\* the request got past line 105
LetThrough(w, r) ==
    IF RateCheck(r).pc # "done" THEN [w EXCEPT ![r.ip] = @ + 1] ELSE w

\* lines 99-101
GwIncr(i) ==
    /\ reqs[i].pc = "incr"
    /\ rate' = Incr(rate, reqs[i].ip)
    /\ LET r == [reqs[i] EXCEPT !.count = rate'[reqs[i].ip]] IN
       reqs' = [reqs EXCEPT ![i] =
                  IF r.count = 1 THEN [r EXCEPT !.pc = "expire"] ELSE RateCheck(r)]
       /\ win' = IF r.count = 1 THEN win ELSE LetThrough(win, r)
    /\ UNCHANGED <<lists, unsub, blacklist, ttl, metrics, nextId, faults>>
    /\ GwFrame

\* line 102
GwExpire(i) ==
    /\ reqs[i].pc = "expire"
    /\ ttl' = [ttl EXCEPT ![reqs[i].ip] = rate[reqs[i].ip] > 0]
    /\ reqs' = [reqs EXCEPT ![i] = RateCheck(@)]
    /\ win' = LetThrough(win, reqs[i])
    /\ UNCHANGED <<lists, unsub, blacklist, rate, metrics, nextId, faults>>
    /\ GwFrame

\* line 102, in the store: the hour is over and Redis deletes the key
RateKeyExpires ==
    /\ \E x \in ClientIPs :
         /\ ttl[x]
         /\ rate' = [rate EXCEPT ![x] = 0]
         /\ ttl' = [ttl EXCEPT ![x] = FALSE]
         /\ win' = [win EXCEPT ![x] = 0]
    /\ UNCHANGED <<lists, unsub, blacklist, metrics, nextId, faults, reqs>>
    /\ GwFrame

\* lines 110-115; str.format raises KeyError on an undefined placeholder,
\* which lines 138-141 handle
GwTemplate(i) ==
    /\ reqs[i].pc = "template"
    /\ reqs' = [reqs EXCEPT ![i] =
                  IF @.data.template_id \notin Templates THEN Done(@, "not-found")
                  ELSE IF @.data.template_id \in BadTemplates
                       THEN [@ EXCEPT !.pc = "except"]
                  ELSE [@ EXCEPT !.pc = "rpush"]]
    /\ UNCHANGED <<lists, unsub, blacklist, rate, ttl, metrics, nextId, faults>>
    /\ UNCHANGED win
    /\ GwFrame

\* lines 118-124
GwRpush(i) ==
    /\ reqs[i].pc = "rpush"
    /\ nextId' = nextId + 1
    /\ lists' = RPush(lists, JOB_QUEUE_gateway,
                      Dumps(NewJob(reqs[i].data, nextId', reqs[i].ip)))
    /\ reqs' = [reqs EXCEPT ![i] = [@ EXCEPT !.pc = "metric", !.job_id = nextId',
                                             !.pushed = @ + 1]]
    /\ UNCHANGED <<unsub, blacklist, rate, ttl, metrics, faults>>
    /\ UNCHANGED win
    /\ GwFrame

\* lines 126-132
GwMetric(i) ==
    /\ reqs[i].pc = "metric"
    /\ metrics' = Incr(metrics, "gateway:jobs_queued")
    /\ reqs' = [reqs EXCEPT ![i] = Done([@ EXCEPT !.counted = @ + 1], "queued")]
    /\ UNCHANGED <<lists, unsub, blacklist, rate, ttl, nextId, faults>>
    /\ UNCHANGED win
    /\ GwFrame

StoreOps == {"smembers", "sismember", "incr", "expire", "template", "rpush",
             "metric"}

\* a store operation of lines 86-126 raises redis.RedisError: line 134
GwRedisError(i) ==
    /\ reqs[i].pc \in StoreOps
    /\ faults < MaxFaults
    /\ faults' = faults + 1
    /\ reqs' = [reqs EXCEPT ![i] = [@ EXCEPT !.pc = "except_redis", !.raised = TRUE]]
    /\ UNCHANGED <<lists, unsub, blacklist, rate, ttl, metrics, nextId>>
    /\ UNCHANGED win
    /\ GwFrame

\* lines 134-137
GwExceptRedis(i) ==
    /\ reqs[i].pc = "except_redis"
    /\ metrics' = Incr(metrics, "gateway:redis_errors")
    /\ reqs' = [reqs EXCEPT ![i] = Done(@, "unavailable")]
    /\ UNCHANGED <<lists, unsub, blacklist, rate, ttl, nextId, faults>>
    /\ UNCHANGED win
    /\ GwFrame

\* lines 138-141
GwExcept(i) ==
    /\ reqs[i].pc = "except"
    /\ metrics' = Incr(metrics, "gateway:unexpected_errors")
    /\ reqs' = [reqs EXCEPT ![i] = Done(@, "internal-error")]
    /\ UNCHANGED <<lists, unsub, blacklist, rate, ttl, nextId, faults>>
    /\ UNCHANGED win
    /\ GwFrame

\* the incr of line 136 or 140 raises: the exception leaves send, and the
\* framework answers 500
GwHandlerRaises(i) ==
    /\ reqs[i].pc \in {"except_redis", "except"}
    /\ faults < MaxFaults
    /\ faults' = faults + 1
    /\ reqs' = [reqs EXCEPT ![i] = Done([@ EXCEPT !.raised = TRUE], "internal-error")]
    /\ UNCHANGED <<lists, unsub, blacklist, rate, ttl, metrics, nextId>>
    /\ UNCHANGED win
    /\ GwFrame

\* the processes before their first pop, and no request, call or fault yet
ProcessesIdle ==
    /\ foreign = 0
    /\ fpc = "complaints" /\ fjob = NoJob
    /\ wpc = "pop" /\ wjob = NoJob /\ wdata = NoJob
    /\ rpc = "pop" /\ rjob = NoJob /\ rdelay = 0
    /\ dropped = {}
    /\ attempts = [id \in 1..MaxJobs |-> 0]
    /\ reqs = [i \in 1..MaxReqs |-> Idle]
    /\ faults = 0

FnIdle ==
    /\ bk = [n |-> 0, base |-> 0, max |-> 0, delay |-> 0, prev |-> 0]
    /\ sel = SelIdle
    /\ mon = MonIdle

StoreEmpty ==
    /\ lists = [k \in QueueKeys |-> <<>>]
    /\ metrics = [k \in MetricKeys |-> 0]
    /\ nextId = 0

GatewayInit ==
    /\ StoreEmpty
    /\ unsub \in {{}, {"b@y.com"}}
    /\ blacklist \in {{}, ClientIPs}
    /\ \E c \in {0, RateLimit - 1, RateLimit} :
         /\ rate = [x \in RateIds |-> c]
         /\ ttl = [x \in RateIds |-> c > 0]
         /\ win = [x \in RateIds |-> c]
    /\ ProcessesIdle
    /\ FnIdle

GatewayNext ==
    \/ RateKeyExpires
    \/ \E i \in 1..MaxReqs :
        \/ GwStart(i)
        \/ GwSmembers(i)
        \/ GwSismember(i)
        \/ GwIncr(i)
        \/ GwExpire(i)
        \/ GwTemplate(i)
        \/ GwRpush(i)
        \/ GwMetric(i)
        \/ GwRedisError(i)
        \/ GwExceptRedis(i)
        \/ GwExcept(i)
        \/ GwHandlerRaises(i)

GatewaySpec == GatewayInit /\ [][GatewayNext]_vars

-----------------------------------------------------------------------------
(* The pipeline's producers *)

\* one whole request to /send that passes the decorator and validate_job,
\* names no template, and whose store operations all succeed (lines 72-132)
Admit ==
    /\ nextId < MaxJobs
    /\ \E tv \in ToValues, ident \in BOOLEAN, r \in ClientRetries, ip \in ClientIPs,
          code \in ClientCodes, frm \in Senders :
         /\ ~AnyUnsubscribed(tv.addrs, unsub)
         /\ ip \notin blacklist
         /\ rate' = Incr(rate, ip)
         /\ ttl' = IF rate'[ip] = 1 THEN [ttl EXCEPT ![ip] = TRUE] ELSE ttl
         /\ IF rate'[ip] > RateLimit
            THEN UNCHANGED <<lists, metrics, nextId, win>>
            ELSE /\ nextId' = nextId + 1
                 /\ win' = [win EXCEPT ![ip] = @ + 1]
                 /\ lists' = RPush(lists, JOB_QUEUE_gateway,
                                   Dumps(NewJob([ClientPayload(tv, ident, r, "")
                                                   EXCEPT !.smtp_code = code,
                                                          !.from = frm],
                                                nextId', ip)))
                 /\ metrics' = Incr(metrics, "gateway:jobs_queued")
    /\ UNCHANGED <<unsub, blacklist, foreign, fpc, fjob, wpc, wjob, wdata,
                   rpc, rjob, rdelay, dropped, reqs, faults, FnVars, attempts>>

\* another producer writing to the shared store: a text that is not JSON, or
\* a mapping without the keys a job has
ForeignPayloads ==
    {Garbage,
     [Garbage EXCEPT !.json = TRUE, !.from = "a@x.com", !.subject = TRUE,
                     !.body = TRUE],
     [Garbage EXCEPT !.json = TRUE, !.toKind = "single", !.to = <<"a@y.com">>,
                     !.from = "a@x.com", !.body = TRUE]}

ForeignPush ==
    /\ foreign < MaxForeign
    /\ foreign' = foreign + 1
    /\ \E p \in ForeignPayloads, key \in {"email_jobs", "failed_jobs"} :
         lists' = RPush(lists, key, p)
    /\ UNCHANGED <<unsub, blacklist, rate, ttl, metrics, nextId, fpc, fjob,
                   wpc, wjob, wdata, rpc, rjob, rdelay, dropped, reqs, faults,
                   FnVars, win, attempts>>

-----------------------------------------------------------------------------
(* Unsubscribe Filter (unsubscribe.py) *)

\* lines 116-127: the recipients that are valid and not in the set, in order
RECURSIVE valid_recipients(_, _)
valid_recipients(addrs, us) ==
    IF addrs = <<>> THEN <<>>
    ELSE LET e == Head(addrs)
             rest == valid_recipients(Tail(addrs), us)
         IN  IF ValidEmail(e) /\ e \notin us THEN <<e>> \o rest ELSE rest

\* how many recipients take the branch at lines 122-124 / 125-127
NumSkipped(addrs, us) ==
    Cardinality({i \in 1..Len(addrs) : ValidEmail(addrs[i]) /\ addrs[i] \in us})
NumInvalid(addrs) ==
    Cardinality({i \in 1..Len(addrs) : ~ValidEmail(addrs[i])})

\* line 130 without the collapse to a single value
rewrite_to_list(d, survivors) == [d EXCEPT !.to = survivors, !.toKind = "list"]

\* line 130: data["to"] = valid_recipients if len > 1 else valid_recipients[0]
rewrite_to(d, survivors) ==
    [d EXCEPT !.to = survivors,
              !.toKind = IF Len(survivors) > 1 THEN "list" ELSE "single"]

AddN(m, key, n) == [m EXCEPT ![key] = @ + n]

FilterFrame == UNCHANGED <<blacklist, rate, ttl, nextId, foreign,
                           wpc, wjob, wdata, rpc, rjob, rdelay,
                           reqs, faults, bk, sel, win, attempts, mon>>

\* line 56 with the threshold at 400
is_permanent_400(code) == code >= 400

\* line 56: smtp_code >= 500
is_permanent(code) == code >= 500

\* process_complaints, lines 47-69: BRPOP takes the tail of the bounced list
process_complaints ==
    /\ fpc = "complaints"
    /\ fpc' = "pop"
    /\ LET q == lists[BOUNCED_QUEUE] IN
       IF q = <<>>
       THEN UNCHANGED <<lists, unsub, metrics>>
       ELSE LET data == q[Len(q)] IN
            /\ lists' = [lists EXCEPT ![BOUNCED_QUEUE] = SubSeq(q, 1, Len(q) - 1)]
            /\ IF ~CanLoad(data)
               THEN /\ metrics' = Incr(metrics, "unsub:unexpected_errors")
                    /\ UNCHANGED unsub
               ELSE IF is_permanent(data.smtp_code)
               THEN IF data.toKind # "single"
                    THEN /\ metrics' = Incr(metrics, "unsub:unexpected_errors")
                         /\ UNCHANGED unsub
                    ELSE IF ValidEmail(data.to[1])
                    THEN /\ unsub' = unsub \cup {data.to[1]}
                         /\ metrics' = Incr(metrics, "unsub:auto_unsubscribed")
                    ELSE UNCHANGED <<unsub, metrics>>
               ELSE UNCHANGED <<unsub, metrics>>
    /\ UNCHANGED <<fjob, dropped>>
    /\ FilterFrame

\* lines 94-96: blpop(job_queue); a timeout goes round the loop
FilterPop ==
    /\ fpc = "pop"
    /\ IF lists[JOB_QUEUE_filter] = <<>>
       THEN /\ fpc' = "complaints"
            /\ UNCHANGED <<lists, fjob>>
       ELSE /\ fpc' = "process"
            /\ fjob' = Head(lists[JOB_QUEUE_filter])
            /\ lists' = [lists EXCEPT ![JOB_QUEUE_filter] = Tail(@)]
    /\ UNCHANGED <<unsub, metrics, dropped>>
    /\ FilterFrame

\* lines 98-103
FilterBadJson ==
    /\ fpc = "process"
    /\ ~CanLoad(fjob)
    /\ metrics' = Incr(metrics, "unsub:json_errors")
    /\ fpc' = "complaints"
    /\ fjob' = NoJob
    /\ UNCHANGED <<lists, unsub, dropped>>
    /\ FilterFrame

\* lines 108-112
FilterMissingTo ==
    /\ fpc = "process"
    /\ CanLoad(fjob)
    /\ fjob.toKind = "absent"
    /\ metrics' = Incr(metrics, "unsub:invalid_jobs")
    /\ fpc' = "complaints"
    /\ fjob' = NoJob
    /\ UNCHANGED <<lists, unsub, dropped>>
    /\ FilterFrame

\* lines 114-133
FilterForward ==
    /\ fpc = "process"
    /\ CanLoad(fjob)
    /\ fjob.toKind # "absent"
    /\ LET survivors == valid_recipients(fjob.to, unsub) IN
       /\ survivors # <<>>
       /\ lists' = RPush(lists, FILTERED_QUEUE, Dumps(rewrite_to(fjob, survivors)))
       /\ metrics' = Incr(AddN(AddN(metrics, "unsub:skipped",
                                    NumSkipped(fjob.to, unsub)),
                               "unsub:invalid_emails", NumInvalid(fjob.to)),
                          "unsub:processed")
    /\ fpc' = "complaints"
    /\ fjob' = NoJob
    /\ UNCHANGED <<unsub, dropped>>
    /\ FilterFrame

\* lines 114-127, 134-136
FilterDrop ==
    /\ fpc = "process"
    /\ CanLoad(fjob)
    /\ fjob.toKind # "absent"
    /\ valid_recipients(fjob.to, unsub) = <<>>
    /\ metrics' = Incr(AddN(AddN(metrics, "unsub:skipped",
                                 NumSkipped(fjob.to, unsub)),
                            "unsub:invalid_emails", NumInvalid(fjob.to)),
                       "unsub:skipped_jobs")
    /\ dropped' = dropped \cup {fjob.job_id}
    /\ fpc' = "complaints"
    /\ fjob' = NoJob
    /\ UNCHANGED <<lists, unsub>>
    /\ FilterFrame

-----------------------------------------------------------------------------
(* Delivery Engine (worker.py) *)

\* the endpoint configuration read by load_smtp_configs
smtp_configs ==
    <<[id |-> "A", host |-> "smtp1", weight |-> 3],
      [id |-> "B", host |-> "smtp2", weight |-> 1]>>
Hosts == {smtp_configs[i].host : i \in 1..Len(smtp_configs)}

\* lines 52-58: the configs whose host is not in "blacklisted_ips"
valid_configs(configs, bl) ==
    SelectSeq(configs, LAMBDA c : is_valid(c, bl))

\* line 62: random.choices over the valid configs, weights w / total_weight
Choices(vc) == {vc[i] : i \in {j \in 1..Len(vc) : vc[j].weight > 0}}

\* lines 50-62 when the Blacklist Set does not change during the call: what can
\* be returned; the empty set stands for the ValueError of line 60
select_smtp_config(configs, bl) == Choices(valid_configs(configs, bl))

\* what smtplib can answer: delivered, an SMTPResponseException with a code, or
\* any other exception (connection refused, recipients refused, ...)
SmtpCodes == {450, 550}

\* line 154: {"error": str(e), "smtp_code": e.smtp_code, **data}
\* line 170: {"error": str(e), **data}; the keys of data win
error_data(d, err, code) ==
    [d EXCEPT !.error = IF d.error # "" THEN d.error ELSE err,
              !.smtp_code = IF d.smtp_code # 0 THEN d.smtp_code ELSE code]

\* lines 155, 167: data["retries"] = data.get("retries", 0) + 1
worker_retries(d) == [d EXCEPT !.retries = GetRetries(d) + 1]

\* lines 143-148: the job goes to smtplib once more
HandOver(a, d) ==
    IF d.job_id \in DOMAIN a THEN [a EXCEPT ![d.job_id] = @ + 1] ELSE a

WorkerFrame == UNCHANGED <<unsub, blacklist, nextId, foreign, fpc, fjob,
                           rpc, rjob, rdelay, dropped, reqs, faults, bk, sel,
                           win, mon>>

\* lines 102-104: blpop(job_queue)
WorkerPop ==
    /\ wpc = "pop"
    /\ lists[JOB_QUEUE_worker] # <<>>
    /\ wjob' = Head(lists[JOB_QUEUE_worker])
    /\ lists' = [lists EXCEPT ![JOB_QUEUE_worker] = Tail(@)]
    /\ wpc' = "process"
    /\ UNCHANGED <<wdata, rate, ttl, metrics>>
    /\ UNCHANGED attempts
    /\ WorkerFrame

\* lines 166-171, the handler `except Exception`, run on the dict `data`
WorkerUnexpected(d) ==
    LET d2 == worker_retries(d) IN
    /\ lists' = RPush(RPush(lists, FAILED_QUEUE, Dumps(d2)),
                      BOUNCED_QUEUE, Dumps(error_data(d2, "exception", 0)))
    /\ metrics' = Incr(metrics, "worker:unexpected_errors")
    /\ wdata' = d2

\* lines 119-122
WorkerRate(d) ==
    /\ rate' = Incr(rate, d.from)
    /\ ttl' = IF rate'[d.from] = 1 THEN [ttl EXCEPT ![d.from] = TRUE] ELSE ttl

\* line 106 raises and `data` was never bound: line 167 raises NameError
\* inside the handler, which leaves the loop and ends the process (173-175)
WorkerBadJsonCrash ==
    /\ wpc = "process"
    /\ ~CanLoad(wjob)
    /\ wdata = NoJob
    /\ wpc' = "crashed"
    /\ wjob' = NoJob
    /\ UNCHANGED <<lists, rate, ttl, metrics, wdata>>
    /\ UNCHANGED attempts
    /\ WorkerFrame

\* line 106 raises and `data` is still the dict of an earlier iteration
WorkerBadJsonStale ==
    /\ wpc = "process"
    /\ ~CanLoad(wjob)
    /\ wdata # NoJob
    /\ WorkerUnexpected(wdata)
    /\ wpc' = "pop"
    /\ wjob' = NoJob
    /\ UNCHANGED <<rate, ttl>>
    /\ UNCHANGED attempts
    /\ WorkerFrame

\* lines 110-115
WorkerMissingFields ==
    /\ wpc = "process"
    /\ CanLoad(wjob)
    /\ ~HasRequired(wjob)
    /\ lists' = RPush(lists, FAILED_QUEUE, Dumps(wjob))
    /\ wdata' = wjob
    /\ wpc' = "pop"
    /\ wjob' = NoJob
    /\ UNCHANGED <<rate, ttl, metrics>>
    /\ UNCHANGED attempts
    /\ WorkerFrame

\* lines 117-126
WorkerRateLimited ==
    /\ wpc = "process"
    /\ CanLoad(wjob)
    /\ HasRequired(wjob)
    /\ WorkerRate(wjob)
    /\ rate'[wjob.from] > RateLimit
    /\ lists' = RPush(lists, FAILED_QUEUE, Dumps(wjob))
    /\ wdata' = wjob
    /\ wpc' = "pop"
    /\ wjob' = NoJob
    /\ UNCHANGED metrics
    /\ UNCHANGED attempts
    /\ WorkerFrame

\* lines 128-129 with every endpoint blacklisted: ValueError, then 166-171
WorkerNoEndpoint ==
    /\ wpc = "process"
    /\ CanLoad(wjob)
    /\ HasRequired(wjob)
    /\ WorkerRate(wjob)
    /\ rate'[wjob.from] <= RateLimit
    /\ select_smtp_config(smtp_configs, blacklist) = {}
    /\ WorkerUnexpected(wjob)
    /\ wpc' = "pop"
    /\ wjob' = NoJob
    /\ UNCHANGED attempts
    /\ WorkerFrame

\* lines 128-151: transport accepts the message
WorkerDelivered ==
    /\ wpc = "process"
    /\ CanLoad(wjob)
    /\ HasRequired(wjob)
    /\ WorkerRate(wjob)
    /\ rate'[wjob.from] <= RateLimit
    /\ select_smtp_config(smtp_configs, blacklist) # {}
    /\ lists' = RPush(lists, DELIVERED_QUEUE, Dumps(wjob))
    /\ metrics' = Incr(metrics, "worker:deliveries")
    /\ wdata' = wjob
    /\ wpc' = "pop"
    /\ wjob' = NoJob
    /\ attempts' = HandOver(attempts, wjob)
    /\ WorkerFrame

\* lines 153-161: transport answers with a status code
WorkerSmtpError ==
    /\ wpc = "process"
    /\ CanLoad(wjob)
    /\ HasRequired(wjob)
    /\ WorkerRate(wjob)
    /\ rate'[wjob.from] <= RateLimit
    /\ select_smtp_config(smtp_configs, blacklist) # {}
    /\ \E code \in SmtpCodes :
         LET d2 == worker_retries(wjob) IN
         /\ lists' = RPush(RPush(lists, FAILED_QUEUE, Dumps(d2)),
                           BOUNCED_QUEUE, Dumps(error_data(wjob, "smtp", code)))
         /\ metrics' = IF code >= 500
                       THEN Incr(Incr(metrics, "worker:smtp_errors"),
                                 "worker:permanent_failures")
                       ELSE Incr(metrics, "worker:smtp_errors")
         /\ wdata' = d2
    /\ wpc' = "pop"
    /\ wjob' = NoJob
    /\ attempts' = HandOver(attempts, wjob)
    /\ WorkerFrame

\* lines 143-148 raise anything else: 166-171
WorkerOtherError ==
    /\ wpc = "process"
    /\ CanLoad(wjob)
    /\ HasRequired(wjob)
    /\ WorkerRate(wjob)
    /\ rate'[wjob.from] <= RateLimit
    /\ select_smtp_config(smtp_configs, blacklist) # {}
    /\ WorkerUnexpected(wjob)
    /\ wpc' = "pop"
    /\ wjob' = NoJob
    /\ attempts' = HandOver(attempts, wjob)
    /\ WorkerFrame

-----------------------------------------------------------------------------
(* Retry Engine (retry.py) *)

\* lines 27-30
validate_job(d) == d.job_id # 0 /\ d.recipient /\ d.sender

Min(a, b) == IF a < b THEN a ELSE b

\* lines 32-35 without the cap
calculate_backoff_nocap(retry_count, base, max) == base * (2 ^ retry_count)

\* lines 32-35
calculate_backoff(retry_count, base, max) == Min(base * (2 ^ retry_count), max)

RetryFrame == UNCHANGED <<unsub, blacklist, rate, ttl, nextId, foreign,
                          fpc, fjob, wpc, wjob, wdata, dropped,
                          reqs, faults, bk, sel, win, attempts, mon>>

\* lines 54-58
RetryPop ==
    /\ rpc = "pop"
    /\ lists[FAILED_QUEUE] # <<>>
    /\ rjob' = Head(lists[FAILED_QUEUE])
    /\ lists' = [lists EXCEPT ![FAILED_QUEUE] = Tail(@)]
    /\ rpc' = "process"
    /\ UNCHANGED <<metrics, rdelay>>
    /\ RetryFrame

\* lines 59-64
RetryBadJson ==
    /\ rpc = "process"
    /\ ~CanLoad(rjob)
    /\ metrics' = Incr(metrics, "retry:json_errors")
    /\ rpc' = "pop"
    /\ rjob' = NoJob
    /\ UNCHANGED <<lists, rdelay>>
    /\ RetryFrame

\* lines 66-70 with the decoded job pushed after a retries increment
RetryInvalid_incr ==
    /\ rpc = "process"
    /\ CanLoad(rjob)
    /\ ~validate_job(rjob)
    /\ metrics' = Incr(metrics, "retry:invalid_jobs")
    /\ lists' = RPush(lists, DEAD_LETTER_QUEUE,
                      Dumps([rjob EXCEPT !.retries = GetRetries(rjob) + 1]))
    /\ rpc' = "pop"
    /\ rjob' = NoJob
    /\ UNCHANGED rdelay
    /\ RetryFrame

\* lines 66-70: the text popped goes to the dead-letter queue as it is
RetryInvalid ==
    /\ rpc = "process"
    /\ CanLoad(rjob)
    /\ ~validate_job(rjob)
    /\ metrics' = Incr(metrics, "retry:invalid_jobs")
    /\ lists' = RPush(lists, DEAD_LETTER_QUEUE, rjob)
    /\ rpc' = "pop"
    /\ rjob' = NoJob
    /\ UNCHANGED rdelay
    /\ RetryFrame

\* lines 72-80: retries < max_retries, up to the sleep
RetrySchedule ==
    /\ rpc = "process"
    /\ CanLoad(rjob)
    /\ validate_job(rjob)
    /\ GetRetries(rjob) < max_retries
    /\ rjob' = [rjob EXCEPT !.retries = GetRetries(rjob) + 1]
    /\ rdelay' = calculate_backoff(GetRetries(rjob), base_delay, max_delay)
    /\ rpc' = "sleep"
    /\ UNCHANGED <<lists, metrics>>
    /\ RetryFrame

\* lines 80-82: the sleep is over
RetryRequeue ==
    /\ rpc = "sleep"
    /\ lists' = RPush(lists, RETRY_QUEUE, Dumps(rjob))
    /\ metrics' = Incr(metrics, "retry:retries")
    /\ rpc' = "pop"
    /\ rjob' = NoJob
    /\ rdelay' = 0
    /\ RetryFrame

\* lines 83-86
RetryDeadLetter ==
    /\ rpc = "process"
    /\ CanLoad(rjob)
    /\ validate_job(rjob)
    /\ GetRetries(rjob) >= max_retries
    /\ lists' = RPush(lists, DEAD_LETTER_QUEUE, Dumps(rjob))
    /\ metrics' = Incr(metrics, "retry:permanent_failures")
    /\ rpc' = "pop"
    /\ rjob' = NoJob
    /\ UNCHANGED rdelay
    /\ RetryFrame

-----------------------------------------------------------------------------
(* The pipeline *)

Init ==
    /\ StoreEmpty
    /\ unsub \in {{}, {"b@y.com"}}
    /\ blacklist \in {{}, Hosts}
    /\ \E c \in {0, RateLimit - 1} :
         /\ rate = [x \in RateIds |-> c]
         /\ ttl = [x \in RateIds |-> c > 0]
         /\ win = [x \in RateIds |-> c]
    /\ ProcessesIdle
    /\ FnIdle

Next ==
    \/ Admit
    \/ ForeignPush
    \/ process_complaints
    \/ FilterPop
    \/ FilterBadJson
    \/ FilterMissingTo
    \/ FilterForward
    \/ FilterDrop
    \/ WorkerPop
    \/ WorkerBadJsonCrash
    \/ WorkerBadJsonStale
    \/ WorkerMissingFields
    \/ WorkerRateLimited
    \/ WorkerNoEndpoint
    \/ WorkerDelivered
    \/ WorkerSmtpError
    \/ WorkerOtherError
    \/ RetryPop
    \/ RetryBadJson
    \/ RetryInvalid
    \/ RetrySchedule
    \/ RetryRequeue
    \/ RetryDeadLetter

Spec == Init /\ [][Next]_vars

-----------------------------------------------------------------------------
(* calculate_backoff on its own: retry counts 0, 1, 2, ... for a choice of  *)
(* base_delay and max_delay                                                  *)

Bases == {1, 2, 3}
Maxes == {1, 60, 100}

BackoffInit ==
    /\ StoreEmpty /\ unsub = {} /\ blacklist = {}
    /\ rate = [x \in RateIds |-> 0] /\ ttl = [x \in RateIds |-> FALSE]
    /\ ProcessesIdle
    /\ sel = SelIdle
    /\ mon = MonIdle
    /\ win = [x \in RateIds |-> 0]
    /\ \E b \in Bases, m \in Maxes :
         LET d == calculate_backoff(0, b, m) IN
         bk = [n |-> 0, base |-> b, max |-> m, delay |-> d, prev |-> d]

BackoffStep ==
    /\ bk.n < MaxN
    /\ bk' = [bk EXCEPT !.n = @ + 1,
                        !.delay = calculate_backoff(bk.n + 1, bk.base, bk.max),
                        !.prev = bk.delay]
    /\ UNCHANGED <<lists, unsub, blacklist, rate, ttl, metrics, nextId,
                   PipeVars, reqs, faults, sel, win, mon>>

BackoffSpec == BackoffInit /\ [][BackoffStep]_vars

-----------------------------------------------------------------------------
(* select_smtp_config on its own, one sismember at a time, while the        *)
(* Reputation Monitor adds hosts to and removes hosts from the Blacklist Set *)

ConfigLists ==
    {smtp_configs,
     smtp_configs \o <<[id |-> "C", host |-> "smtp3", weight |-> 1]>>}
AllHosts == Hosts \cup {"smtp3"}

SelFrame == UNCHANGED <<lists, unsub, rate, ttl, metrics, nextId, PipeVars,
                        reqs, faults, bk, win, mon>>

SelectInit ==
    /\ StoreEmpty /\ unsub = {}
    /\ blacklist \in SUBSET AllHosts
    /\ rate = [x \in RateIds |-> 0] /\ ttl = [x \in RateIds |-> FALSE]
    /\ win = [x \in RateIds |-> 0]
    /\ ProcessesIdle
    /\ FnIdle

\* line 129: the call
SelectCall ==
    /\ sel.pc = "idle"
    /\ \E cs \in ConfigLists :
         sel' = [SelIdle EXCEPT !.pc = "loop", !.configs = cs, !.i = 1]
    /\ UNCHANGED blacklist
    /\ SelFrame

\* lines 54-58: one turn of the loop
SelectCheck ==
    /\ sel.pc = "loop"
    /\ sel.i <= Len(sel.configs)
    /\ LET c == sel.configs[sel.i]
           listed == c.host \in blacklist
       IN  sel' = [sel EXCEPT !.i = @ + 1,
                              !.checked = Append(@, listed),
                              !.valid = IF is_valid(c, blacklist)
                                        THEN Append(@, c) ELSE @]
    /\ UNCHANGED blacklist
    /\ SelFrame

\* lines 59-60
SelectRaise ==
    /\ sel.pc = "loop"
    /\ sel.i > Len(sel.configs)
    /\ sel.valid = <<>>
    /\ sel' = [sel EXCEPT !.pc = "done", !.result = "ValueError"]
    /\ UNCHANGED blacklist
    /\ SelFrame

\* lines 61-62
SelectReturn ==
    /\ sel.pc = "loop"
    /\ sel.i > Len(sel.configs)
    /\ \E c \in Choices(sel.valid) :
         sel' = [sel EXCEPT !.pc = "done", !.result = c.id]
    /\ UNCHANGED blacklist
    /\ SelFrame

\* the worker goes on to its next job
SelectDone ==
    /\ sel.pc = "done"
    /\ sel' = SelIdle
    /\ UNCHANGED blacklist
    /\ SelFrame

\* check_spamhaus_notify.py lines 127-131: sadd / srem on "blacklisted_ips",
\* as the monitor or any other client of the store issues them
MonitorUpdate ==
    /\ \E h \in AllHosts :
         \/ blacklist' = blacklist \cup {h}
         \/ blacklist' = blacklist \ {h}
    /\ blacklist' # blacklist
    /\ sel' = IF sel.pc \in {"loop", "done"} THEN [sel EXCEPT !.changed = TRUE]
              ELSE sel
    /\ SelFrame

SelectNext ==
    \/ SelectCall
    \/ SelectCheck
    \/ SelectRaise
    \/ SelectReturn
    \/ SelectDone
    \/ MonitorUpdate

SelectSpec == SelectInit /\ [][SelectNext]_vars

-----------------------------------------------------------------------------
(* Reputation Monitor (check_spamhaus_notify.py): the checks of main's loop  *)
(* over the IPs, is_blacklisted one store or DNS operation at a time.  The   *)
(* module never imports json, so json.loads (line 52) and json.dumps (line   *)
(* 71) raise NameError.                                                      *)

MonFrame == UNCHANGED <<lists, unsub, blacklist, rate, ttl, nextId, PipeVars,
                        reqs, faults, bk, sel, win>>

\* what one DNS query can answer: A records, NXDOMAIN, or another exception
DnsAnswers == {"listed", "nxdomain", "error"}

\* lines 121-123: the next IP of the list
MonCheck ==
    /\ mon.pc = "idle"
    /\ mon.checks < MaxChecks
    /\ \E ip \in MonIPs :
         mon' = [mon EXCEPT !.pc = "get", !.ip = ip, !.results = <<>>,
                            !.queries = 0, !.checks = @ + 1]
    /\ UNCHANGED metrics
    /\ MonFrame

\* lines 48-53: r.get(cache_key); a hit goes to json.loads, which raises
IsBlacklistedGet ==
    /\ mon.pc = "get"
    /\ mon' = [mon EXCEPT !.pc = IF mon.cache[mon.ip] # "none" THEN "except"
                                 ELSE "resolve"]
    /\ UNCHANGED metrics
    /\ MonFrame

\* lines 55-68: one query of the loop over the blacklists
IsBlacklistedResolve ==
    /\ mon.pc = "resolve"
    /\ Len(mon.results) < Len(Blacklists)
    /\ \E a \in DnsAnswers :
         /\ mon' = [mon EXCEPT !.results = Append(@, a = "listed"),
                               !.queries = @ + 1]
         /\ metrics' = IF a = "error" THEN Incr(metrics, "ip_reputation:dns_errors")
                       ELSE metrics
    /\ MonFrame

\* line 71: json.dumps(results) raises before r.setex is called
IsBlacklistedSetex ==
    /\ mon.pc = "resolve"
    /\ Len(mon.results) = Len(Blacklists)
    /\ mon' = [mon EXCEPT !.pc = "except", !.fresh[mon.ip] = TRUE]
    /\ UNCHANGED metrics
    /\ MonFrame

\* lines 141-143, then the next IP
MonExcept ==
    /\ mon.pc = "except"
    /\ metrics' = Incr(metrics, "ip_reputation:unexpected_errors")
    /\ mon' = [mon EXCEPT !.pc = "idle"]
    /\ MonFrame

\* cache_ttl seconds have passed since the last check of the IP: a key
\* "blacklist_cache:<ip>", if there is one, is gone
CacheKeyExpires ==
    /\ mon.pc = "idle"
    /\ \E ip \in MonIPs :
         /\ mon.fresh[ip] \/ mon.cache[ip] # "none"
         /\ mon' = [mon EXCEPT !.fresh[ip] = FALSE, !.cache[ip] = "none"]
    /\ UNCHANGED metrics
    /\ MonFrame

\* the Blacklist Set as the store holds it when the monitor starts
MonitorInit ==
    /\ StoreEmpty /\ unsub = {}
    /\ blacklist \in SUBSET MonIPs
    /\ rate = [x \in RateIds |-> 0] /\ ttl = [x \in RateIds |-> FALSE]
    /\ win = [x \in RateIds |-> 0]
    /\ ProcessesIdle
    /\ FnIdle

MonitorNext ==
    \/ MonCheck
    \/ IsBlacklistedGet
    \/ IsBlacklistedResolve
    \/ IsBlacklistedSetex
    \/ MonExcept
    \/ CacheKeyExpires

MonitorSpec == MonitorInit /\ [][MonitorNext]_vars

-----------------------------------------------------------------------------
(* Properties of the pipeline *)

\* the copies of job `id` in list `key`
CopiesIn(key, id) ==
    Cardinality({i \in 1..Len(lists[key]) :
                   lists[key][i].json /\ lists[key][i].job_id = id})
InList(key, id) == CopiesIn(key, id) > 0

HeldBy(p, id) == IF p.json /\ p.job_id = id THEN 1 ELSE 0

\* the copies of job `id` in the intake, filtered, failed, delivered and
\* dead-letter queues and in the hands of a stage
Copies(id) ==
    CopiesIn("email_jobs", id) + CopiesIn("filtered_jobs", id)
    + CopiesIn("failed_jobs", id) + CopiesIn("delivered", id)
    + CopiesIn("permanent_failed", id)
    + HeldBy(fjob, id) + HeldBy(wjob, id) + HeldBy(rjob, id)

\* no stage holds a payload and the queues the stages read are empty, so no
\* stage acts again unless something new is pushed
Drained ==
    /\ lists["email_jobs"] = <<>>
    /\ lists["failed_jobs"] = <<>>
    /\ fpc # "process"
    /\ wpc # "process"
    /\ rpc = "pop"

\* C1: no job is lost.  Every job Admission Control accepted eventually is in
\* the delivered queue, in the dead-letter queue, or was dropped by the
\* Unsubscribe Filter; so once the stages have drained the queues they read,
\* every accepted job is in one of these three places.
C1_NoJobLost ==
    Drained =>
        \A id \in 1..nextId :
            InList("delivered", id) \/ InList("permanent_failed", id)
            \/ id \in dropped

\* C2: no job is duplicated.  For every job_id there is at most one copy of
\* the job across the intake, filtered, failed, delivered and dead-letter
\* queues and the stages, whatever payloads the queues hold.
C2_NoDuplicate == \A id \in 1..nextId : Copies(id) <= 1

\* the Retry Engine has a decoded job carrying job_id, from, to, subject and
\* body in hand and finishes with it in this step
RetryHandles ==
    /\ rpc = "process"
    /\ rpc' # "process"
    /\ rjob.json
    /\ rjob.job_id # 0
    /\ HasRequired(rjob)

\* C3: every job the Retry Engine pops with retries < max_retries is
\* scheduled for re-queueing with retries raised by 1, and is not pushed to
\* the dead-letter queue.
C3_RetryRequeues ==
    [][(RetryHandles /\ GetRetries(rjob) < max_retries)
       => /\ rpc' = "sleep"
          /\ rjob' = [rjob EXCEPT !.retries = GetRetries(rjob) + 1]
          /\ lists'["permanent_failed"] = lists["permanent_failed"]]_vars

\* C4: a job the Retry Engine pops with retries >= max_retries goes to the
\* dead-letter queue in the same step (no sleep), the permanent-failure
\* counter goes up by one, and nothing is pushed to the retry queue.
C4_DeadLetter ==
    [][(RetryHandles /\ GetRetries(rjob) >= max_retries)
       => /\ rpc' = "pop"
          /\ lists'["permanent_failed"] = Append(lists["permanent_failed"], rjob)
          /\ metrics'["retry:permanent_failures"]
               = metrics["retry:permanent_failures"] + 1
          /\ lists'["email_jobs"] = lists["email_jobs"]]_vars

\* the positions of the recipients that are valid and not unsubscribed
SurvivorIdx(addrs, us) ==
    {i \in 1..Len(addrs) : addrs[i] \in ValidAddrs /\ addrs[i] \notin us}

\* `out` lists exactly the surviving recipients of `addrs`, in their order
IsSurvivorList(out, addrs, us) ==
    LET I == SurvivorIdx(addrs, us) IN
    /\ Len(out) = Cardinality(I)
    /\ \A i \in I : out[Cardinality({j \in I : j <= i})] = addrs[i]

\* the Unsubscribe Filter has a decoded job with a `to` in hand and finishes
\* with it in this step
FilterHandles ==
    /\ fpc = "process"
    /\ fpc' # "process"
    /\ fjob.json
    /\ fjob.toKind \in {"single", "list"}

FilterDropsQuietly ==
    [][(FilterHandles /\ SurvivorIdx(fjob.to, unsub) = {})
       => /\ lists' = lists
          /\ metrics'["unsub:skipped_jobs"] = metrics["unsub:skipped_jobs"] + 1
          /\ metrics'["unsub:processed"] = metrics["unsub:processed"]]_vars

\* C6: a job whose recipients are all invalid or unsubscribed is dropped by
\* the Unsubscribe Filter and never re-enters any queue: no copy of a dropped
\* job is in a job queue or in the hands of a stage.
C6_DroppedStaysOut == \A id \in dropped \cap 1..nextId : Copies(id) = 0

-----------------------------------------------------------------------------
(* Properties of calculate_backoff, select_smtp_config and send *)

\* C7: delay(n) = min(base * 2^n, max): it never exceeds max, does not
\* decrease from n - 1 to n, and with base = 2 and max = 60 the delays are
\* 2, 4, 8, 16, 32, 60, 60, 60, ...
C7_Backoff ==
    LET raw == bk.base * (2 ^ bk.n) IN
    /\ bk.delay <= bk.max
    /\ bk.delay <= raw
    /\ bk.delay = raw \/ bk.delay = bk.max
    /\ bk.prev <= bk.delay
    /\ (bk.base = 2 /\ bk.max = 60)
         => bk.delay = IF bk.n < 8 THEN <<2, 4, 8, 16, 32, 60, 60, 60>>[bk.n + 1]
                       ELSE 60

\* C7 witness: base 2, max 60, n = 5, the first capped delay
C7_Witness == bk.base = 2 /\ bk.max = 60 /\ bk.n = 5 /\ bk.delay = 60 /\ bk.prev = 32

\* the ids of the configs of the call whose host is not in the Blacklist Set
NotListedIds ==
    {sel.configs[k].id : k \in {j \in 1..Len(sel.configs) :
                                  sel.configs[j].host \notin blacklist}}

\* C8: select_smtp_config never returns an endpoint whose host was in the
\* Blacklist Set when the call read it (nor, when the set did not change
\* during the call, one that is in it at the return); every endpoint that is
\* not blacklisted can be returned; with {A: 3, B: 1} and B blacklisted the
\* call returns A.
C8_Selection ==
    /\ (sel.pc = "done" /\ sel.result # "ValueError")
         => \E k \in 1..Len(sel.configs) :
               /\ sel.configs[k].id = sel.result
               /\ ~sel.checked[k]
               /\ ~sel.changed => sel.configs[k].host \notin blacklist
    /\ (sel.pc = "loop" /\ sel.i > Len(sel.configs) /\ ~sel.changed)
         => {c.id : c \in Choices(sel.valid)} = NotListedIds
    /\ (sel.pc = "done" /\ ~sel.changed /\ sel.configs = smtp_configs
        /\ blacklist \cap Hosts = {"smtp2"})
         => sel.result = "A"

\* C8 witness: {A: 3, B: 1}, B's host blacklisted throughout, A returned
C8_Witness ==
    /\ sel.pc = "done"
    /\ sel.configs = smtp_configs
    /\ blacklist = {"smtp2"}
    /\ ~sel.changed
    /\ sel.checked = <<FALSE, TRUE>>
    /\ sel.result = "A"

\* the reason of the first failing check of request r, in the order of 4.1,
\* or "pass" when no check fails
FirstFailure(r) ==
    IF r.auth # "ok" THEN "unauthorized"
    ELSE IF ~(r.data.from # "" /\ r.data.toKind # "absent" /\ r.data.subject
              /\ r.data.body)
         THEN "malformed"
    ELSE IF \E k \in 1..Len(r.data.to) : r.data.to[k] \in unsub
         THEN "recipient-unsubscribed"
    ELSE IF r.ip \in blacklist THEN "forbidden"
    ELSE IF r.count > RateLimit THEN "rate-limited"
    ELSE IF r.data.template_id # "" /\ r.data.template_id \notin Templates
         THEN "not-found"
    ELSE "pass"

Rejections == {"unauthorized", "malformed", "recipient-unsubscribed",
               "forbidden", "rate-limited", "not-found"}

C10_QueuedIffPushed ==
    \A i \in 1..MaxReqs :
        reqs[i].pc = "done" =>
            IF reqs[i].resp = "queued"
            THEN /\ reqs[i].pushed = 1
                 /\ reqs[i].counted = 1
                 /\ \E k \in 1..Len(lists["email_jobs"]) :
                      lists["email_jobs"][k]
                        = Dumps(NewJob(reqs[i].data, reqs[i].job_id, reqs[i].ip))
            ELSE reqs[i].pushed = 0 /\ reqs[i].counted = 0

-----------------------------------------------------------------------------
(* Properties of the rate limit of send *)

\* C11: for each client IP, at most 100 requests get past the rate-limit
\* check between the creation of its counter and the counter's expiry,
\* however concurrent requests interleave; a request whose increment finds
\* the counter at 100 or more is answered rate-limited.
C11_RateWindow ==
    /\ [](\A x \in ClientIPs : win[x] <= RateLimit)
    /\ [][\A i \in 1..MaxReqs :
            (/\ reqs[i].pc = "incr"
             /\ reqs'[i].pc \notin {"incr", "except_redis"}
             /\ rate[reqs[i].ip] >= RateLimit)
            => reqs'[i].pc = "done" /\ reqs'[i].resp = "rate-limited"]_vars

\* C11 witness: two requests of one IP; the one that drew 100 was queued, the
\* one that drew 101 was answered rate-limited
C11_Witness ==
    \E i, j \in 1..MaxReqs :
        /\ reqs[i].ip = reqs[j].ip
        /\ reqs[i].count = RateLimit /\ reqs[i].resp = "queued"
        /\ reqs[j].count = RateLimit + 1 /\ reqs[j].resp = "rate-limited"
        /\ win[reqs[i].ip] = RateLimit

\* C21: a per-IP rate-limit counter always carries its expiry: whenever no
\* request is between its increment and its expire step, every existing
\* counter "rate_limit:<ip>" has an expiry.
C21_CounterHasExpiry ==
    (\A i \in 1..MaxReqs : reqs[i].pc # "expire")
        => \A x \in ClientIPs : rate[x] > 0 => ttl[x]

-----------------------------------------------------------------------------
(* Properties of complaint ingestion *)

\* C24: process_complaints adds the target of the complaint it pops to the
\* Unsubscribe Set exactly when the complaint's smtp_code is >= 500 and the
\* target is one syntactically valid address; otherwise the set is unchanged;
\* no step of any stage removes an address from the set.
C24_Complaints ==
    [][/\ unsub \subseteq unsub'
       /\ (fpc = "complaints" /\ fpc' = "pop")
            => LET q == lists[BOUNCED_QUEUE] IN
               IF q = <<>> THEN unsub' = unsub
               ELSE LET c == q[Len(q)] IN
                    unsub' = IF /\ c.json
                                /\ c.smtp_code >= 500
                                /\ c.toKind = "single"
                                /\ c.to[1] \in ValidAddrs
                             THEN unsub \cup {c.to[1]}
                             ELSE unsub]_vars

\* C24 witness: a complaint with a permanent code has put a@y.com, which was
\* not there at the start, into the Unsubscribe Set
C24_Witness ==
    /\ "a@y.com" \in unsub
    /\ metrics["unsub:auto_unsubscribed"] = 1
    /\ lists[BOUNCED_QUEUE] = <<>>

-----------------------------------------------------------------------------
(* Properties of the Delivery Engine and the Retry Engine *)

\* the worker ends an iteration in which smtplib raised SMTPResponseException
SmtpFailureStep ==
    /\ wpc = "process"
    /\ metrics'["worker:smtp_errors"] = metrics["worker:smtp_errors"] + 1

\* C12: when transport reports a failure with a status code, the Delivery
\* Engine pushes the job with retries raised by 1 to the failed queue, one
\* bounce record (the job with error and smtp_code set to the reported code)
\* to the bounced queue, and nothing to the delivered queue.
C12_SmtpFailure ==
    [][SmtpFailureStep =>
         \E code \in SmtpCodes :
            /\ (code >= 500) <=> (metrics'["worker:permanent_failures"]
                                    # metrics["worker:permanent_failures"])
            /\ lists'[FAILED_QUEUE]
                 = Append(lists[FAILED_QUEUE],
                          [wjob EXCEPT !.retries = GetRetries(wjob) + 1])
            /\ lists'[BOUNCED_QUEUE]
                 = Append(lists[BOUNCED_QUEUE],
                          [wjob EXCEPT !.error = "smtp", !.smtp_code = code])
            /\ lists'[DELIVERED_QUEUE] = lists[DELIVERED_QUEUE]]_vars

\* the Retry Engine finishes with a job that has all the keys it asks for and
\* that the worker handed to smtplib once, with a failure, the client having
\* sent no retries of its own
FirstFailureInHand ==
    /\ rpc = "process"
    /\ rpc' # "process"
    /\ rjob.json /\ HasRequired(rjob) /\ validate_job(rjob)
    /\ rjob.job_id \in 1..nextId
    /\ attempts[rjob.job_id] = 1
    /\ rjob.retries = 1

\* C13: after a job's first delivery failure the Retry Engine waits
\* delay(0) = base_delay (2 s) before it pushes the job back.
C13_FirstRetryDelay ==
    [][FirstFailureInHand
       => /\ rpc' = "sleep"
          /\ rdelay' = calculate_backoff(0, base_delay, max_delay)
          /\ rdelay' = 2]_vars

\* C15: with the default queue names the Delivery Engine pops only from the
\* filtered queue, so every job it takes in hand was forwarded by the
\* Unsubscribe Filter.
C15_WorkerPopsFiltered ==
    [][(wpc = "pop" /\ wpc' = "process")
       => /\ lists[FILTERED_QUEUE] # <<>>
          /\ wjob' = Head(lists[FILTERED_QUEUE])
          /\ lists'[FILTERED_QUEUE] = Tail(lists[FILTERED_QUEUE])]_vars

\* the last payload of a list
Last(q) == q[Len(q)]

\* C16: retries is changed only by the Retry Engine: a job the Delivery
\* Engine pushes to the failed queue has the retries value it was popped with.
C16_WorkerKeepsRetries ==
    [][(/\ wpc = "process" /\ wpc' = "pop"
        /\ wjob.json
        /\ lists'[FAILED_QUEUE] # lists[FAILED_QUEUE])
       => Last(lists'[FAILED_QUEUE]).retries = wjob.retries]_vars

\* C17: a job lacking any of from/to/subject/body that the Unsubscribe Filter
\* pops is not pushed to the filtered queue and is not silently dropped: it
\* is pushed to the failed or the dead-letter queue.
C17_Quarantine ==
    [][(/\ fpc = "process" /\ fpc' # "process"
        /\ fjob.json
        /\ ~HasRequired(fjob))
       => /\ lists'[FILTERED_QUEUE] = lists[FILTERED_QUEUE]
          /\ \/ lists'[FAILED_QUEUE] = Append(lists[FAILED_QUEUE], fjob)
             \/ lists'[DEAD_LETTER_QUEUE] = Append(lists[DEAD_LETTER_QUEUE], fjob)]_vars

\* C18: no consume loop terminates: whatever payload a stage pops, the error
\* is contained in the iteration and the loop goes on to its next pop.
C18_LoopsNeverTerminate == wpc # "crashed"

\* C19: retries are bounded: no job is handed to transport more than
\* max_retries + 1 times, and once the stages have drained the queues they
\* read, a job whose every attempt failed is in the dead-letter queue.
C19_RetriesBounded ==
    /\ \A id \in 1..nextId : attempts[id] <= max_retries + 1
    /\ Drained =>
         \A id \in 1..nextId :
            (attempts[id] > 0 /\ ~InList(DELIVERED_QUEUE, id))
               => InList(DEAD_LETTER_QUEUE, id)

\* payload p without the keys the worker's handlers set
Stripped(p) == [p EXCEPT !.retries = -1, !.error = "", !.smtp_code = 0]

\* C20: every record the Delivery Engine pushes to the delivered, failed or
\* bounced queue in an iteration is derived from the payload popped in that
\* iteration; a payload that cannot be parsed makes it push nothing.
C20_NoStaleData ==
    [][(wpc = "process" /\ wpc' = "pop")
       => \A k \in {DELIVERED_QUEUE, FAILED_QUEUE, BOUNCED_QUEUE} :
             lists'[k] # lists[k]
                => /\ wjob.json
                   /\ lists'[k] = Append(lists[k], Last(lists'[k]))
                   /\ Stripped(Last(lists'[k])) = Stripped(wjob)]_vars

\* the worker finishes with a job that passed its field and rate checks while
\* the host of every configured endpoint is in the Blacklist Set
NoEndpointStep ==
    /\ wpc = "process" /\ wpc' # "process"
    /\ wjob.json /\ HasRequired(wjob)
    /\ rate[wjob.from] < RateLimit
    /\ Hosts \subseteq blacklist

\* C22: when every endpoint is blacklisted the Delivery Engine makes no
\* transport attempt, pushes the job to the failed queue and a bounce record
\* with error set and without smtp_code to the bounced queue, pushes nothing
\* to the delivered queue, and goes on to its next pop.
C22_NoEndpoint ==
    [][NoEndpointStep
       => /\ attempts' = attempts
          /\ wpc' = "pop"
          /\ lists'[DELIVERED_QUEUE] = lists[DELIVERED_QUEUE]
          /\ \E p \in {Last(lists'[FAILED_QUEUE])} :
                /\ lists'[FAILED_QUEUE] = Append(lists[FAILED_QUEUE], p)
                /\ Stripped(p) = Stripped(wjob)
          /\ \E b \in {Last(lists'[BOUNCED_QUEUE])} :
                /\ lists'[BOUNCED_QUEUE] = Append(lists[BOUNCED_QUEUE], b)
                /\ Stripped(b) = Stripped(wjob)
                /\ b.error # ""
                /\ b.smtp_code = 0]_vars

\* the Retry Engine finishes with the payload it popped
RetryFinishes == rpc = "process" /\ rpc' # "process"

\* the payload lacks one of the keys job_id, recipient, sender
LacksIdentification(p) == p.job_id = 0 \/ ~p.recipient \/ ~p.sender

C28_DisjointCounters ==
    [][(wpc = "process" /\ wpc' # "process")
       => \A x \in ClientIPs : rate'[x] = rate[x]]_vars

-----------------------------------------------------------------------------
(* Properties of the Reputation Monitor *)

\* C14: a check of an IP made less than cache_ttl after an earlier check of
\* the same IP issues no DNS query (it is answered from the cached record);
\* DNS queries are only issued when no check of the IP has run in the window.
C14_CacheWithinTtl ==
    [][(mon.pc = "resolve" /\ mon'.queries > mon.queries)
       => ~mon.fresh[mon.ip]]_vars

\* the monitor finishes with the candidate IP of this turn of the loop
MonProcessed == mon.pc # "idle" /\ mon'.pc = "idle"

\* at least one blacklist answered with A records for the IP in this turn
Listed(m) == \E k \in 1..Len(m.results) : m.results[k]

\* C25: after the monitor has processed a candidate IP, the IP is in the
\* Blacklist Set exactly when at least one blacklist has a non-empty result
\* for it in this cycle (a DNS error counting as empty); the membership of
\* other IPs is unchanged.
C25_SetFollowsRecord ==
    [][MonProcessed
       => /\ (mon.ip \in blacklist') <=> Listed(mon)
          /\ blacklist' \ {mon.ip} = blacklist \ {mon.ip}]_vars

\* C26: recovery is automatic: when the monitor has processed a candidate IP
\* that no blacklist lists (every query of the turn answered NXDOMAIN), the
\* IP is not in the Blacklist Set.
C26_Recovery ==
    [][(/\ MonProcessed
        /\ Len(mon.results) = Len(Blacklists)
        /\ ~Listed(mon)
        /\ metrics'["ip_reputation:dns_errors"] = 0)
       => mon.ip \notin blacklist']_vars

\* C27: when the monitor has processed an IP that is listed in this cycle and
\* for which no alert was ever sent, it has dispatched an alert: the sent or
\* the failed counter has gone up by the end of the turn.
C27_AlertDispatched ==
    [][(MonProcessed /\ Listed(mon) /\ mon.last_alert[mon.ip] = "never")
       => \/ metrics'["ip_reputation:alerts_sent"] > 0
          \/ metrics'["ip_reputation:alerts_failed"] > 0]_vars

====
